---- MODULE Spec2Model ----
(***************************************************************************)
(* Batched transducer decoding of examples/libriheavy/tools/beam_search.py *)
(* : greedy_search_batch, modified_beam_search, Hypothesis and             *)
(* HypothesisList.                                                         *)
(*                                                                         *)
(* Numbers.  A log-probability is kept exactly as the pair [n, e] that     *)
(* stands for log(n / W^e), W being the sum of the softmax weights of one  *)
(* frame.  Adding log-probabilities multiplies the fractions, logaddexp    *)
(* adds them, and log is increasing, so every comparison the code makes on *)
(* log-probabilities is decided exactly on the fractions.  Floating-point  *)
(* rounding is not modelled.                                               *)
(***************************************************************************)
EXTENDS Integers, Sequences, FiniteSets, TLC

(* ---------------------------------------------------------------- bounds *)
MaxN == 3
MaxT == 3
MaxBeam == 2

(* ----------------------------------------------------- program constants *)
blank_id == 0
context_size == 2
vocab_size == 4

(* ------------------------------------------------------- general helpers *)
Range(s) == {s[k] : k \in DOMAIN s}

RECURSIVE Pow(_, _)
Pow(b, k) == IF k = 0 THEN 1 ELSE b * Pow(b, k - 1)

Max2(a, b) == IF a >= b THEN a ELSE b

(* s[from..] and s[..to] of a 1-based sequence: the Python slices *)
(* s[from-1:] and s[:to].                                          *)
Drop(s, k) == IF k >= Len(s) THEN <<>> ELSE SubSeq(s, k + 1, Len(s))
Take(s, k) == IF k >= Len(s) THEN s ELSE SubSeq(s, 1, k)

(* Python's s[-k:] for k >= 1 *)
LastK(s, k) == IF k >= Len(s) THEN s ELSE SubSeq(s, Len(s) - k + 1, Len(s))

(* <<F(1), ..., F(n)>> *)
RECURSIVE Tabulate(_, _)
Tabulate(F(_), n) ==
  IF n = 0 THEN <<>> ELSE Append(Tabulate(F, n - 1), F(n))

Perms(n) == {p \in [1..n -> 1..n] : \A a, b \in 1..n : a # b => p[a] # p[b]}

(* ------------------------------------------- exact big natural numbers -- *)
(* Little-endian digit sequences in base BigBase, used only to compare the *)
(* length-normalised scores of get_most_probable without overflow.         *)
BigBase == 10 * 10 * 10

RECURSIVE BigMulFrom(_, _, _, _)
BigMulFrom(x, m, k, carry) ==
  IF k > Len(x)
  THEN IF carry = 0 THEN <<>>
       ELSE <<carry % BigBase>> \o BigMulFrom(x, m, k, carry \div BigBase)
  ELSE LET v == x[k] * m + carry
       IN  <<v % BigBase>> \o BigMulFrom(x, m, k + 1, v \div BigBase)

BigMul(x, m) == BigMulFrom(x, m, 1, 0)

RECURSIVE BigMulPow(_, _, _)
BigMulPow(x, m, k) == IF k = 0 THEN x ELSE BigMulPow(BigMul(x, m), m, k - 1)

RECURSIVE BigLessFrom(_, _, _)
BigLessFrom(x, y, k) ==
  IF k = 0 THEN FALSE
  ELSE IF x[k] # y[k] THEN x[k] < y[k]
  ELSE BigLessFrom(x, y, k - 1)

BigLess(x, y) ==
  IF Len(x) # Len(y) THEN Len(x) < Len(y) ELSE BigLessFrom(x, y, Len(x))

(* ------------------------------------------------------ log-probabilities *)
(* The joiner's logits are even integers; softmax weight of a logit l at   *)
(* temperature T is 2^(l / T), so a frame's weights sum to the same W for  *)
(* every row of LogitRows.                                                 *)
LogitRows ==
  << <<0, 2, 0, 4>>, <<4, 0, 0, 2>>, <<2, 0, 4, 0>>, <<2, 0, 0, 4>>,
     <<4, 2, 0, 0>>, <<0, 4, 2, 0>>, <<0, 4, 0, 2>> >>

(* A second model, whose distributions differ in sharpness: its logits at *)
(* temperature 1 give the weights 2^l with the same sum W.  It is used at  *)
(* temperature 1 only.                                                     *)
MixedRows ==
  << <<3, 3, 2, 1>>, <<4, 2, 0, 0>>, <<1, 3, 3, 2>>, <<0, 0, 4, 2>>,
     <<2, 1, 3, 3>>, <<1, 4, 1, 1>>, <<3, 2, 1, 3>>, <<0, 2, 0, 4>> >>

(* Encoder features from MixedFrom on are scored by the second model *)
MixedFrom == 100

RECURSIVE SumSeq(_)
SumSeq(s) == IF s = <<>> THEN 0 ELSE Head(s) + SumSeq(Tail(s))

SoftmaxWeights(logits, temp) ==
  Tabulate(LAMBDA v : Pow(2, logits[v] \div temp), Len(logits))

W(temp) == SumSeq(SoftmaxWeights(LogitRows[1], temp))

LogProbZero == [n |-> 1, e |-> 0]

(* (logits / temperature).log_softmax(dim=-1), one row *)
log_softmax(logits, temp) ==
  LET w == SoftmaxWeights(logits, temp)
  IN  Tabulate(LAMBDA v : [n |-> w[v], e |-> 1], Len(logits))

(* a + b on log-probabilities *)
LpAdd(a, b) == [n |-> a.n * b.n, e |-> a.e + b.e]

(* a < b and a = b on the values log(n / W^e) *)
LpLess(a, b, temp) ==
  IF a.e = b.e THEN a.n < b.n
  ELSE a.n * Pow(W(temp), b.e) < b.n * Pow(W(temp), a.e)

LpEq(a, b, temp) ==
  IF a.e = b.e THEN a.n = b.n
  ELSE a.n * Pow(W(temp), b.e) = b.n * Pow(W(temp), a.e)

(* torch.logaddexp(a, b): log(exp(a) + exp(b)) *)
logaddexp(a, b, temp) ==
  LET e == Max2(a.e, b.e)
  IN  [n |-> a.n * Pow(W(temp), e - a.e) + b.n * Pow(W(temp), e - b.e),
       e |-> e]

(* a / la < b / lb for la, lb > 0: (na/W^ea)^lb < (nb/W^eb)^la *)
NormLess(a, la, b, lb, temp) ==
  BigLess(BigMulPow(BigMulPow(<<1>>, a.n, lb), Pow(W(temp), b.e), la),
          BigMulPow(BigMulPow(<<1>>, b.n, la), Pow(W(temp), a.e), lb))

(* ----------------------------------------------------- the opaque model -- *)
(* model.decoder on one row of decoder_input (the last context_size        *)
(* tokens): a deterministic embedding of the context.                      *)
RECURSIVE decoder(_)
decoder(ctx) ==
  IF ctx = <<>> THEN 0
  ELSE Len(ctx) * (ctx[Len(ctx)] + 1) + decoder(SubSeq(ctx, 1, Len(ctx) - 1))

(* model.joiner on one (encoder frame, decoder output) pair: the logits *)
joiner(enc, dec) ==
  IF enc >= MixedFrom
  THEN MixedRows[((enc + dec) % Len(MixedRows)) + 1]
  ELSE LogitRows[((enc + dec) % Len(LogitRows)) + 1]

(* One call of model.joiner on a batch: row k of the result comes from row *)
(* k of the encoder input and row k of the decoder input.                  *)
model_joiner(encs, decs) ==
  Tabulate(LAMBDA k : joiner(encs[k], decs[k]), Len(decs))

(* ------------------------------------------------------------ Hypothesis *)
(* "_".join(map(str, ys)) *)
RECURSIVE Join(_)
Join(ys) ==
  IF Len(ys) = 0 THEN ""
  ELSE IF Len(ys) = 1 THEN ToString(ys[1])
  ELSE Join(SubSeq(ys, 1, Len(ys) - 1)) \o "_" \o ToString(ys[Len(ys)])

(* Faulty variant: the key is built from the last token only *)
key_last(ys) == Join(LastK(ys, 1))

(* Hypothesis.key *)
key(ys) == Join(ys)

Hypothesis(ys, scores, log_prob, timestamp) ==
  [ys |-> ys, scores |-> scores, log_prob |-> log_prob, timestamp |-> timestamp]

(* -------------------------------------------------------- HypothesisList *)
(* self._data, a dict in insertion order: a sequence of [key, hyp].        *)
HasKey(data, k) == \E j \in DOMAIN data : data[j].key = k

IndexOfKey(data, k) == CHOOSE j \in DOMAIN data : data[j].key = k

(* Faulty variant: a merge keeps the larger log-probability *)
add_max(data, hyp, temp) ==
  LET k == key(hyp.ys)
  IN  IF HasKey(data, k)
      THEN LET j == IndexOfKey(data, k)
               old_hyp == data[j].hyp
           IN  [data EXCEPT ![j].hyp.log_prob =
                  IF LpLess(old_hyp.log_prob, hyp.log_prob, temp)
                  THEN hyp.log_prob ELSE old_hyp.log_prob]
      ELSE Append(data, [key |-> k, hyp |-> hyp])

(* Faulty variant: a merge overwrites the log-probability with the new one *)
add_overwrite(data, hyp, temp) ==
  LET k == key(hyp.ys)
  IN  IF HasKey(data, k)
      THEN [data EXCEPT ![IndexOfKey(data, k)].hyp.log_prob = hyp.log_prob]
      ELSE Append(data, [key |-> k, hyp |-> hyp])

(* Faulty variant: add() never looks the key up *)
add_append(data, hyp, temp) ==
  Append(data, [key |-> key(hyp.ys), hyp |-> hyp])

(* HypothesisList.add *)
add(data, hyp, temp) ==
  LET k == key(hyp.ys)
  IN  IF HasKey(data, k)
      THEN LET j == IndexOfKey(data, k)
               old_hyp == data[j].hyp
           IN  [data EXCEPT ![j].hyp.log_prob =
                  logaddexp(old_hyp.log_prob, hyp.log_prob, temp)]
      ELSE Append(data, [key |-> k, hyp |-> hyp])

(* max(self._data.values(), key=...): the first maximal value *)
RECURSIVE MaxFrom(_, _, _, _, _)
MaxFrom(data, j, best, length_norm, temp) ==
  IF j > Len(data) THEN best
  ELSE LET h == data[j].hyp
           better ==
             IF length_norm
             THEN NormLess(best.log_prob, Len(best.ys),
                           h.log_prob, Len(h.ys), temp)
             ELSE LpLess(best.log_prob, h.log_prob, temp)
       IN  MaxFrom(data, j + 1, IF better THEN h ELSE best, length_norm, temp)

(* Faulty variant: length_norm is ignored *)
get_most_probable_raw(data, length_norm, temp) ==
  MaxFrom(data, 2, data[1].hyp, FALSE, temp)

(* HypothesisList.get_most_probable *)
get_most_probable(data, length_norm, temp) ==
  MaxFrom(data, 2, data[1].hyp, length_norm, temp)

(* ------------------------------------------- HypothesisList, by identity -- *)
(* A list holds references: _data is a dict from key to a Hypothesis       *)
(* object, here <<[key, ref]>> in insertion order with ref an index of     *)
(* heap.  An operation gives the heap and the _data it leaves.             *)

(* HypothesisList.add: torch.logaddexp(..., out=old_hyp.log_prob) writes   *)
(* into the object already in the dict; a new key stores hyp itself.       *)
HypothesisList_add(h, data, ref, temp) ==
  LET k == key(h[ref].ys)
  IN  IF HasKey(data, k)
      THEN LET old_hyp == data[IndexOfKey(data, k)].ref
           IN  [heap |-> [h EXCEPT ![old_hyp].log_prob =
                            logaddexp(@, h[ref].log_prob, temp)],
                data |-> data]
      ELSE [heap |-> h, data |-> Append(data, [key |-> k, ref |-> ref])]

(* HypothesisList.filter: ans.add(hyp) for every hyp of self with          *)
(* hyp.log_prob > threshold                                                *)
RECURSIVE FilterFrom(_, _, _, _, _)
FilterFrom(acc, data, j, threshold, temp) ==
  IF j > Len(data) THEN acc
  ELSE IF LpLess(threshold, acc.heap[data[j].ref].log_prob, temp)
  THEN FilterFrom(HypothesisList_add(acc.heap, acc.data, data[j].ref, temp),
                  data, j + 1, threshold, temp)
  ELSE FilterFrom(acc, data, j + 1, threshold, temp)

HypothesisList_filter(h, data, threshold, temp) ==
  FilterFrom([heap |-> h, data |-> <<>>], data, 1, threshold, temp)

(* sorted(hyps, key=lambda h: h[1].log_prob, reverse=True): a stable sort, *)
(* equal log_probs keep their order                                        *)
RECURSIVE InsertByLogProb(_, _, _, _)
InsertByLogProb(h, sorted, item, temp) ==
  IF sorted = <<>> THEN <<item>>
  ELSE IF LpLess(h[Head(sorted).ref].log_prob, h[item.ref].log_prob, temp)
  THEN <<item>> \o sorted
  ELSE <<Head(sorted)>> \o InsertByLogProb(h, Tail(sorted), item, temp)

RECURSIVE SortedByLogProb(_, _, _)
SortedByLogProb(h, data, temp) ==
  IF data = <<>> THEN <<>>
  ELSE InsertByLogProb(h, SortedByLogProb(h, SubSeq(data, 1, Len(data) - 1), temp),
                       data[Len(data)], temp)

(* HypothesisList.topk: HypothesisList(dict(sorted(...)[:k])) *)
HypothesisList_topk(h, data, k, temp) ==
  [heap |-> h, data |-> Take(SortedByLogProb(h, data, temp), k)]

(* ------------------------------------------------ RaggedLength schedule -- *)
(* pack_padded_sequence(enforce_sorted=False) sorts the lengths in         *)
(* decreasing order with torch.sort, which promises no order among equal   *)
(* lengths: every permutation that sorts them is a possible                *)
(* sorted_indices.  sorted_indices[j] is the input position of sorted row j.*)
SortedIndicesOf(lens) ==
  {p \in Perms(Len(lens)) :
     \A a, b \in 1..Len(lens) : a < b => lens[p[a]] >= lens[p[b]]}

(* Faulty variant: the sorting permutation is used in place of its inverse *)
unsorted_indices_forward(sorted_indices) == sorted_indices

(* packed_encoder_out.unsorted_indices: the inverse permutation *)
unsorted_indices(sorted_indices) ==
  Tabulate(LAMBDA i : CHOOSE j \in DOMAIN sorted_indices : sorted_indices[j] = i, Len(sorted_indices))

RECURSIVE MaxOf(_)
MaxOf(s) == IF s = <<>> THEN 0 ELSE Max2(Head(s), MaxOf(Tail(s)))

(* The lengths in decreasing order, as pack_padded_sequence sorts them *)
RECURSIVE InsertDesc(_, _)
InsertDesc(sorted, l) ==
  IF sorted = <<>> THEN <<l>>
  ELSE IF l > Head(sorted) THEN <<l>> \o sorted
  ELSE <<Head(sorted)>> \o InsertDesc(Tail(sorted), l)

RECURSIVE SortDesc(_)
SortDesc(lens) ==
  IF lens = <<>> THEN <<>> ELSE InsertDesc(SortDesc(Tail(lens)), Head(lens))

(* The batch sizes pack_padded_sequence computes from the sorted lengths:  *)
(* it walks them from the shortest (i = 0) to the longest, and for every   *)
(* length l above the previous one emits l - prev_l steps of batch size    *)
(* N - i.                                                                  *)
RECURSIVE BatchSizesFrom(_, _, _)
BatchSizesFrom(sorted, i, prev_l) ==
  IF i >= Len(sorted) THEN <<>>
  ELSE LET l == sorted[Len(sorted) - i]
       IN  IF l > prev_l
           THEN Tabulate(LAMBDA j : Len(sorted) - i, l - prev_l)
                  \o BatchSizesFrom(sorted, i + 1, l)
           ELSE BatchSizesFrom(sorted, i + 1, prev_l)

(* Faulty variant: an utterance leaves the batch one step early *)
batch_size_list_early(lens) ==
  Tabulate(LAMBDA k : Cardinality({i \in DOMAIN lens : lens[i] > k}), MaxOf(lens))

(* packed_encoder_out.batch_sizes: entry t+1 is the batch size of step t *)
batch_size_list(lens) == BatchSizesFrom(SortDesc(lens), 0, 0)

(* packed_encoder_out.data[start:end] at step t: row j is frame t of the   *)
(* utterance in sorted row j.                                               *)
current_encoder_out(inp, t, batch_size) ==
  Tabulate(LAMBDA j : inp.encoder_out[inp.sorted_indices[j]][t + 1], batch_size)

(* ------------------------------------------------------------ torch.topk *)
(* Indices (1-based) of the k largest values, largest first.  The order    *)
(* among equal values is not specified by torch; ties is the order the     *)
(* build uses: "low" takes the smallest index first, "high" the largest.   *)
RECURSIVE TopkBest(_, _, _, _, _, _)
TopkBest(vals, taken, c, best, ties, temp) ==
  IF c > Len(vals) THEN best
  ELSE IF c \in taken THEN TopkBest(vals, taken, c + 1, best, ties, temp)
  ELSE IF best = 0
          \/ LpLess(vals[best], vals[c], temp)
          \/ (ties = "high" /\ ~LpLess(vals[c], vals[best], temp))
  THEN TopkBest(vals, taken, c + 1, c, ties, temp)
  ELSE TopkBest(vals, taken, c + 1, best, ties, temp)

RECURSIVE TopkFrom(_, _, _, _, _)
TopkFrom(vals, taken, k, ties, temp) ==
  IF k = 0 THEN <<>>
  ELSE LET c == TopkBest(vals, taken, 1, 0, ties, temp)
       IN  <<c>> \o TopkFrom(vals, taken \cup {c}, k - 1, ties, temp)

(* Faulty variant: one candidate more than asked for is taken *)
topk_one_more(vals, k, ties, temp) == TopkFrom(vals, {}, k + 1, ties, temp)

topk(vals, k, ties, temp) == TopkFrom(vals, {}, k, ties, temp)

(* ------------------------------------------------- modified_beam_search -- *)
(* B[i].add(Hypothesis(ys=[blank_id] * context_size, log_prob=0, ...)) *)
InitialB(N) ==
  Tabulate(LAMBDA i : add(<<>>,
         Hypothesis(Tabulate(LAMBDA k : blank_id, context_size), <<>>,
                    LogProbZero, <<>>),
         1), N)

(* get_hyps_row_splits: the exclusive prefix sums of the list lengths,     *)
(* <<0, len(B[1]), len(B[1]) + len(B[2]), ...>>                            *)
RECURSIVE get_hyps_row_splits(_)
get_hyps_row_splits(hyps) ==
  IF hyps = <<>> THEN <<0>>
  ELSE LET front == get_hyps_row_splits(SubSeq(hyps, 1, Len(hyps) - 1))
       IN  Append(front, front[Len(front)] + Len(hyps[Len(hyps)]))

(* utils.row_splits_to_row_ids: the utterance (1-based) of every flat row *)
row_splits_to_row_ids(row_splits) ==
  Tabulate(LAMBDA k : CHOOSE i \in 1..(Len(row_splits) - 1) :
                        row_splits[i] < k /\ k <= row_splits[i + 1],
           row_splits[Len(row_splits)])

(* [hyp for hyps in A for hyp in hyps] *)
RECURSIVE Flatten(_)
Flatten(A) == IF A = <<>> THEN <<>> ELSE Head(A) \o Flatten(Tail(A))

(* Faulty variant: the frames are not selected by row id, row k gets the   *)
(* frame of utterance k                                                    *)
JoinerInput_unselected(hyps, enc, row_ids) ==
  Tabulate(LAMBDA k : [enc |-> enc[IF k <= Len(enc) THEN k ELSE Len(enc)],
                       dec |-> decoder(LastK(hyps[k].ys, context_size))],
           Len(hyps))

(* The rows of the joiner call of one step: row k pairs the frame of the   *)
(* utterance of flat hypothesis k (index_select by row id) with the        *)
(* decoder output for the last context_size tokens of that hypothesis.     *)
JoinerInput(hyps, enc, row_ids) ==
  Tabulate(LAMBDA k : [enc |-> enc[row_ids[k]],
                       dec |-> decoder(LastK(hyps[k].ys, context_size))],
           Len(hyps))

(* log_probs after log_softmax, reshaped to one dimension: entry           *)
(* (h - 1) * vocab_size + v + 1 is flat hypothesis h, token v.             *)
LogProbsRows(rows, temp) ==
  LET logits ==
        model_joiner(Tabulate(LAMBDA k : rows[k].enc, Len(rows)),
                     Tabulate(LAMBDA k : rows[k].dec, Len(rows)))
      log_probs ==
        Tabulate(LAMBDA h : log_softmax(logits[h], temp), Len(rows))
  IN  Tabulate(LAMBDA c : log_probs[((c - 1) \div vocab_size) + 1]
                                   [((c - 1) % vocab_size) + 1],
               Len(rows) * vocab_size)

(* Faulty variant: the log_prob of the hypothesis is not added *)
add_token_only(rows, A_i) == rows

(* log_probs.add_(ys_log_probs): every row gets its hypothesis's log_prob *)
add_(rows, A_i) ==
  Tabulate(LAMBDA c : LpAdd(rows[c], A_i[((c - 1) \div vocab_size) + 1].log_prob), Len(rows))

(* log_probs_t = log_probs.reshape(-1) is taken before add_.  log_probs is *)
(* the contiguous result of log_softmax, so reshape returns a view of the  *)
(* same storage and the in-place add_ is seen through log_probs_t.         *)
log_probs_t(rows, A_i) == add_(rows, A_i)

(* Faulty variant: the frame index is recorded for blank too *)
new_hyp_always_timestamp(A_i, log_probs, current_log_probs, topk_index, t, unk_id) ==
  LET hyp_idx == (topk_index - 1) \div vocab_size
      new_token == (topk_index - 1) % vocab_size
      hyp == A_i[hyp_idx + 1]
      emit == new_token \notin {blank_id, unk_id}
  IN  Hypothesis(
        IF emit THEN Append(hyp.ys, new_token) ELSE hyp.ys,
        IF emit THEN Append(hyp.scores, current_log_probs[topk_index])
                ELSE hyp.scores,
        log_probs[topk_index],
        Append(hyp.timestamp, t))

(* Faulty variant: the number of frames consumed is recorded, not t *)
new_hyp_frames_consumed(A_i, log_probs, current_log_probs, topk_index, t, unk_id) ==
  LET hyp_idx == (topk_index - 1) \div vocab_size
      new_token == (topk_index - 1) % vocab_size
      hyp == A_i[hyp_idx + 1]
      emit == new_token \notin {blank_id, unk_id}
  IN  Hypothesis(
        IF emit THEN Append(hyp.ys, new_token) ELSE hyp.ys,
        IF emit THEN Append(hyp.scores, current_log_probs[topk_index])
                ELSE hyp.scores,
        log_probs[topk_index],
        IF emit THEN Append(hyp.timestamp, t + 1) ELSE hyp.timestamp)

(* Faulty variant: only blank_id is skipped, unk_id is appended *)
new_hyp_unk_emitted(A_i, log_probs, current_log_probs, topk_index, t, unk_id) ==
  LET hyp_idx == (topk_index - 1) \div vocab_size
      new_token == (topk_index - 1) % vocab_size
      hyp == A_i[hyp_idx + 1]
      emit == new_token # blank_id
  IN  Hypothesis(
        IF emit THEN Append(hyp.ys, new_token) ELSE hyp.ys,
        IF emit THEN Append(hyp.scores, current_log_probs[topk_index])
                ELSE hyp.scores,
        log_probs[topk_index],
        IF emit THEN Append(hyp.timestamp, t) ELSE hyp.timestamp)

(* The body of "for k in range(len(topk_hyp_indexes))": the new hypothesis *)
new_hyp(A_i, log_probs, current_log_probs, topk_index, t, unk_id) ==
  LET hyp_idx == (topk_index - 1) \div vocab_size
      new_token == (topk_index - 1) % vocab_size
      hyp == A_i[hyp_idx + 1]
      emit == new_token \notin {blank_id, unk_id}
  IN  Hypothesis(
        IF emit THEN Append(hyp.ys, new_token) ELSE hyp.ys,
        IF emit THEN Append(hyp.scores, current_log_probs[topk_index])
                ELSE hyp.scores,
        log_probs[topk_index],
        IF emit THEN Append(hyp.timestamp, t) ELSE hyp.timestamp)

(* The k loop: add every new hypothesis to the fresh B[i]; calls records   *)
(* every add() as [before, hyp, after].                                    *)
RECURSIVE ExpandFrom(_, _, _, _, _, _, _, _)
ExpandFrom(acc, A_i, log_probs, current_log_probs, topk_indexes, k, t, inp) ==
  IF k > Len(topk_indexes) THEN acc
  ELSE LET nh == new_hyp(A_i, log_probs, current_log_probs,
                         topk_indexes[k], t, inp.unk_id)
           after == add(acc.data, nh, inp.temperature)
       IN  ExpandFrom(
             [data |-> after,
              calls |-> Append(acc.calls,
                         [before |-> acc.data, hyp |-> nh, after |-> after])],
             A_i, log_probs, current_log_probs, topk_indexes, k + 1, t, inp)

(* The body of "for i in range(batch_size)" for one utterance: log_probs   *)
(* and current_log_probs are the slices row_splits[i] : row_splits[i + 1]. *)
BeamRow(A_i, log_probs, current_log_probs, t, inp) ==
  LET topk_indexes == topk(log_probs, inp.beam, inp.topk_ties, inp.temperature)
  IN  ExpandFrom([data |-> <<>>, calls |-> <<>>], A_i, log_probs,
                 current_log_probs, topk_indexes, 1, t, inp)

(* topk(beam) raises when the slice has fewer than beam elements *)
TopkFails(b, inp) == inp.beam > Len(b) * vocab_size

(* Faulty variant: the lists retired now go behind those retired before *)
Retired_appended(B, finalized_B, batch_size) ==
  finalized_B \o Drop(B, batch_size)

(* finalized_B = B[batch_size:] + finalized_B *)
Retired(B, finalized_B, batch_size) == Drop(B, batch_size) \o finalized_B

(* One iteration of the time loop on the state [B, finalized_B, t, ...] *)
BeamStep(st, inp) ==
  LET batch_size == batch_size_list(inp.encoder_out_lens)[st.t + 1]
      finalized_B == Retired(st.B, st.finalized_B, batch_size)
      B == Take(st.B, batch_size)
      enc == current_encoder_out(inp, st.t, batch_size)
      hyps_row_splits == get_hyps_row_splits(B)
      A == Tabulate(LAMBDA i : Tabulate(LAMBDA h : B[i][h].hyp, Len(B[i])),
                    batch_size)
      flat == Flatten(A)
      joiner_rows ==
        JoinerInput(flat, enc, row_splits_to_row_ids(hyps_row_splits))
      rows == LogProbsRows(joiner_rows, inp.temperature)
      log_probs == add_(rows, flat)
      current_log_probs == log_probs_t(rows, flat)
      row_splits ==
        Tabulate(LAMBDA i : hyps_row_splits[i] * vocab_size,
                 Len(hyps_row_splits))
      failing == {i \in 1..batch_size : TopkFails(B[i], inp)}
      new == Tabulate(LAMBDA i :
                        BeamRow(A[i],
                                SubSeq(log_probs, row_splits[i] + 1,
                                       row_splits[i + 1]),
                                SubSeq(current_log_probs, row_splits[i] + 1,
                                       row_splits[i + 1]),
                                st.t, inp),
                      batch_size)
  IN  IF failing # {}
      THEN [st EXCEPT !.pc = "error", !.finalized_B = finalized_B,
                      !.B = Tabulate(LAMBDA i : IF \A f \in failing : i < f
                               THEN new[i].data ELSE <<>>, batch_size),
                      !.add_calls = Tabulate(LAMBDA i : <<>>, batch_size),
                      !.joiner_in = joiner_rows,
                      !.decoder_calls = @ + 1, !.proj_calls = @ + 1,
                      !.joiner_calls = @ + 1]
      ELSE [st EXCEPT !.t = @ + 1, !.finalized_B = finalized_B,
                      !.B = Tabulate(LAMBDA i : new[i].data, batch_size),
                      !.add_calls = Tabulate(LAMBDA i : new[i].calls, batch_size),
                      !.joiner_in = joiner_rows,
                      !.decoder_calls = @ + 1, !.proj_calls = @ + 1,
                      !.joiner_calls = @ + 1]

(* Faulty variant: the retired lists are put in front, B = finalized_B + B *)
BeamFinish_finalized_first(st, inp) ==
  LET B == st.finalized_B \o st.B
      best_hyps == Tabulate(LAMBDA j : get_most_probable(B[j], TRUE, inp.temperature), Len(B))
      unsorted == unsorted_indices(inp.sorted_indices)
  IN  [st EXCEPT !.pc = "done", !.B = B,
         !.ans = [hyps |-> Tabulate(LAMBDA i : Drop(best_hyps[unsorted[i]].ys, context_size), Len(unsorted)),
                  timestamps |-> Tabulate(LAMBDA i : best_hyps[unsorted[i]].timestamp, Len(unsorted)),
                  scores |-> Tabulate(LAMBDA i : best_hyps[unsorted[i]].scores, Len(unsorted))]]

(* Lines 473-492: combine, pick the best hypotheses, restore input order *)
BeamFinish(st, inp) ==
  LET B == st.B \o st.finalized_B
      best_hyps == Tabulate(LAMBDA j : get_most_probable(B[j], TRUE, inp.temperature), Len(B))
      unsorted == unsorted_indices(inp.sorted_indices)
  IN  [st EXCEPT !.pc = "done", !.B = B,
         !.ans = [hyps |-> Tabulate(LAMBDA i : Drop(best_hyps[unsorted[i]].ys, context_size), Len(unsorted)),
                  timestamps |-> Tabulate(LAMBDA i : best_hyps[unsorted[i]].timestamp, Len(unsorted)),
                  scores |-> Tabulate(LAMBDA i : best_hyps[unsorted[i]].scores, Len(unsorted))]]

(* -------------------------------------------------- greedy_search_batch -- *)
(* log_probs.argmax(dim=1): the index of the first maximal value *)
argmax(row) ==
  CHOOSE v \in DOMAIN row :
    \A u \in DOMAIN row :
      /\ ~LpLess(row[v], row[u], 1)
      /\ (u < v) => LpLess(row[u], row[v], 1)

(* Faulty variant: frames are counted from 1 *)
greedy_timestamp_from_one(timestamps_i, t) == Append(timestamps_i, t + 1)

(* timestamps[i].append(t) *)
greedy_timestamp(timestamps_i, t) == Append(timestamps_i, t)

(* Faulty variant: the decoder is run after every step *)
decoder_rerun_always(emitted) == TRUE

(* Faulty variant: the decoder output of the first call is kept *)
decoder_rerun_never(emitted) == FALSE

(* "if emitted:" the decoder is run again on the new contexts *)
decoder_rerun(emitted) == emitted

(* One iteration of the time loop on the state [hyps, timestamps, ...] *)
GreedyStep(st, inp) ==
  LET batch_size == batch_size_list(inp.encoder_out_lens)[st.t + 1]
      enc == current_encoder_out(inp, st.t, batch_size)
      decoder_out == Take(st.decoder_out, batch_size)
      logits == model_joiner(enc, decoder_out)
      log_probs == Tabulate(LAMBDA i : log_softmax(logits[i], 1), batch_size)
      y == Tabulate(LAMBDA i : argmax(log_probs[i]) - 1, batch_size)
      emits(i) == i <= batch_size /\ y[i] \notin {blank_id, inp.unk_id}
      emitted == \E i \in 1..batch_size : emits(i)
      hyps == Tabulate(LAMBDA i : IF emits(i) THEN Append(st.hyps[i], y[i]) ELSE st.hyps[i], Len(st.hyps))
  IN  [st EXCEPT
         !.t = @ + 1,
         !.hyps = hyps,
         !.timestamps = Tabulate(LAMBDA i : IF emits(i)
                           THEN greedy_timestamp(st.timestamps[i], st.t)
                           ELSE st.timestamps[i], Len(st.timestamps)),
         !.scores = Tabulate(LAMBDA i : IF emits(i)
                       THEN Append(st.scores[i], log_probs[i][y[i] + 1])
                       ELSE st.scores[i], Len(st.scores)),
         !.decoder_out =
            IF decoder_rerun(emitted)
            THEN Tabulate(LAMBDA i : decoder(LastK(hyps[i], context_size)), batch_size)
            ELSE decoder_out,
         !.joiner_in =
            Tabulate(LAMBDA i : [enc |-> enc[i], dec |-> decoder_out[i]],
                     batch_size),
         !.joiner_calls = @ + 1,
         !.decoder_calls = IF decoder_rerun(emitted) THEN @ + 1 ELSE @,
         !.proj_calls = IF decoder_rerun(emitted) THEN @ + 1 ELSE @]

(* Lines 137-151: strip the context prefix and restore input order *)
GreedyFinish(st, inp) ==
  LET sorted_ans == Tabulate(LAMBDA j : Drop(st.hyps[j], context_size), Len(st.hyps))
      unsorted == unsorted_indices(inp.sorted_indices)
  IN  [st EXCEPT !.pc = "done",
         !.ans = [hyps |-> Tabulate(LAMBDA i : sorted_ans[unsorted[i]], Len(unsorted)),
                  timestamps |-> Tabulate(LAMBDA i : st.timestamps[unsorted[i]], Len(unsorted)),
                  scores |-> Tabulate(LAMBDA i : st.scores[unsorted[i]], Len(unsorted))]]

(* ------------------------------------------------------ one decode call -- *)
NoResult == [hyps |-> <<>>, timestamps |-> <<>>, scores |-> <<>>]

(* The state on entry, before any statement has run *)
EntryState ==
  [pc |-> "start", t |-> 0, B |-> <<>>, finalized_B |-> <<>>,
   add_calls |-> <<>>, hyps |-> <<>>, timestamps |-> <<>>, scores |-> <<>>,
   decoder_out |-> <<>>, decoder_calls |-> 0, joiner_calls |-> 0,
   proj_calls |-> 0, joiner_in |-> <<>>, ans |-> NoResult]

(* Faulty variant: only the empty batch is rejected *)
InputRejected_empty_only(inp) == Len(inp.encoder_out_lens) < 1

(* assert encoder_out.size(0) >= 1; pack_padded_sequence raises on a      *)
(* length <= 0; assert torch.all(encoder_out_lens > 0)                     *)
InputRejected(inp) ==
  \/ Len(inp.encoder_out_lens) < 1
  \/ \E i \in DOMAIN inp.encoder_out_lens : inp.encoder_out_lens[i] <= 0

(* Everything before the time loop *)
Start(st, inp) ==
  LET N == Len(inp.encoder_out_lens)
  IN  IF InputRejected(inp) THEN [st EXCEPT !.pc = "error"]
      ELSE IF inp.algo = "greedy"
      THEN LET hyps == Tabulate(LAMBDA i : Tabulate(LAMBDA k : IF k < context_size THEN -1 ELSE blank_id, context_size), N)
           IN  [st EXCEPT !.pc = "loop",
                  !.hyps = hyps,
                  !.timestamps = Tabulate(LAMBDA i : <<>>, N),
                  !.scores = Tabulate(LAMBDA i : <<>>, N),
                  !.decoder_out = Tabulate(LAMBDA i : decoder(hyps[i]), N),
                  !.decoder_calls = @ + 1,
                  !.proj_calls = @ + 2]
      ELSE [st EXCEPT !.pc = "loop", !.B = InitialB(N), !.proj_calls = @ + 1]

Step(st, inp) ==
  IF inp.algo = "greedy" THEN GreedyStep(st, inp) ELSE BeamStep(st, inp)

Finish(st, inp) ==
  IF inp.algo = "greedy" THEN GreedyFinish(st, inp) ELSE BeamFinish(st, inp)

LoopEnded(st, inp) == st.t >= Len(batch_size_list(inp.encoder_out_lens))

(* A whole call, from the state after Start to its end *)
RECURSIVE Run(_, _)
Run(st, inp) ==
  IF st.pc # "loop" THEN st
  ELSE IF LoopEnded(st, inp) THEN Finish(st, inp)
  ELSE Run(Step(st, inp), inp)

(* ----------------------------------------------------------------- state *)
VARIABLES
  algo,              \* which entry point is called
  encoder_out,       \* encoder_out[i]: the valid frames of utterance i
  encoder_out_lens,  \* the caller's valid lengths
  beam, temperature, \* modified_beam_search arguments
  unk_id,            \* getattr(model, "unk_id", blank_id)
  topk_ties,         \* the order torch.topk gives equal values
  sorted_indices,    \* packed_encoder_out.sorted_indices
  pc,                \* "start", "loop", "done", "error", "compared", "widened"
  t,                 \* the time step about to run
  B, finalized_B,    \* modified_beam_search: the hypothesis lists
  add_calls,         \* the add() calls of the last step, per utterance
  hyps, timestamps, scores, decoder_out,   \* greedy_search_batch
  decoder_calls, joiner_calls, proj_calls, \* calls into the model so far
  joiner_in,         \* the rows given to the last model.joiner call
  ans,               \* the DecodingResults returned
  perm, ans_perm,    \* a second call on the permuted batch, un-permuted
  beam_wide, B_wide, \* a second call with a wider beam: its final lists
  heap,              \* the Hypothesis objects, by identity
  self_data,         \* _data of a HypothesisList: <<[key, ref]>> in dict order
  ans_data,          \* _data of the list filter() or topk() returned
  lists_pc,          \* "idle", "made", "returned"
  adds               \* add() calls made on the returned list

inputs == <<algo, encoder_out, encoder_out_lens, beam, temperature, unk_id,
            topk_ties>>
state == <<pc, t, B, finalized_B, add_calls, hyps, timestamps, scores,
           decoder_out, decoder_calls, joiner_calls, proj_calls, joiner_in,
           ans>>
second == <<perm, ans_perm, beam_wide, B_wide>>
lists == <<heap, self_data, ans_data, lists_pc, adds>>
vars == <<inputs, sorted_indices, state, second, lists>>

Inp ==
  [algo |-> algo, encoder_out |-> encoder_out,
   encoder_out_lens |-> encoder_out_lens, beam |-> beam,
   temperature |-> temperature, unk_id |-> unk_id, topk_ties |-> topk_ties,
   sorted_indices |-> sorted_indices]

St ==
  [pc |-> pc, t |-> t, B |-> B, finalized_B |-> finalized_B,
   add_calls |-> add_calls, hyps |-> hyps, timestamps |-> timestamps,
   scores |-> scores, decoder_out |-> decoder_out,
   decoder_calls |-> decoder_calls, joiner_calls |-> joiner_calls,
   proj_calls |-> proj_calls, joiner_in |-> joiner_in, ans |-> ans]

Becomes(st) ==
  /\ pc' = st.pc /\ t' = st.t /\ B' = st.B /\ finalized_B' = st.finalized_B
  /\ add_calls' = st.add_calls /\ hyps' = st.hyps
  /\ timestamps' = st.timestamps /\ scores' = st.scores
  /\ decoder_out' = st.decoder_out /\ decoder_calls' = st.decoder_calls
  /\ joiner_calls' = st.joiner_calls /\ proj_calls' = st.proj_calls
  /\ joiner_in' = st.joiner_in /\ ans' = st.ans

Is(st) ==
  /\ pc = st.pc /\ t = st.t /\ B = st.B /\ finalized_B = st.finalized_B
  /\ add_calls = st.add_calls /\ hyps = st.hyps
  /\ timestamps = st.timestamps /\ scores = st.scores
  /\ decoder_out = st.decoder_out /\ decoder_calls = st.decoder_calls
  /\ joiner_calls = st.joiner_calls /\ proj_calls = st.proj_calls
  /\ joiner_in = st.joiner_in /\ ans = st.ans

(* No HypothesisList is handled outside the decoders *)
ListsIdle ==
  /\ heap = <<>>
  /\ self_data = <<>>
  /\ ans_data = <<>>
  /\ lists_pc = "idle"
  /\ adds = 0

(* ---------------------------------------------------------------- inputs *)
(* A call that is rejected never reads its other arguments, so the rejected *)
(* batches are paired with one setting of them only.                        *)
UnkIds == {blank_id, 1}
Lengths == -1..MaxT

(* encoder_out of a batch with these lengths: frame k of utterance i, as  *)
(* the feature the encoder projection gives.  The content differs between *)
(* utterances, frames and batches.                                        *)
Seeds == {0}

Frames(seed, lens) ==
  [i \in DOMAIN lens |->
     [k \in 1..Max2(lens[i], 0) |->
        (seed + SumSeq(lens) + 2 * i + k + k * k) % Len(LogitRows)]]

(* The settings of unk_id, temperature and the order of equal values in   *)
(* topk: every two values of two of them occur together.                  *)
Settings ==
  { <<blank_id, 1, "low">>, <<blank_id, 2, "high">>,
    <<1, 1, "high">>, <<1, 2, "low">> }

Init ==
  /\ algo \in {"greedy", "beam"}
  /\ \E N \in 0..MaxN : encoder_out_lens \in [1..N -> Lengths]
  /\ IF InputRejected([encoder_out_lens |-> encoder_out_lens])
     THEN /\ encoder_out = Frames(0, encoder_out_lens)
          /\ unk_id = blank_id
          /\ beam = 1
          /\ temperature = 1
          /\ topk_ties = "low"
     ELSE /\ \E seed \in Seeds : encoder_out = Frames(seed, encoder_out_lens)
          /\ IF algo = "beam"
             THEN /\ beam \in 1..MaxBeam
                  /\ \E s \in Settings :
                       /\ unk_id = s[1]
                       /\ temperature = s[2]
                       /\ topk_ties = s[3]
             ELSE /\ unk_id \in UnkIds
                  /\ beam = 1
                  /\ temperature = 1
                  /\ topk_ties = "low"
  /\ sorted_indices = <<>>
  /\ Is(EntryState)
  /\ perm = <<>>
  /\ ans_perm = NoResult
  /\ beam_wide = 0
  /\ B_wide = <<>>
  /\ ListsIdle

(* --------------------------------------------------------------- actions *)
(* Lines 58-97 and 340-371: validation, packing, initial hypotheses *)
DoStart ==
  /\ pc = "start"
  /\ IF InputRejected(Inp)
     THEN /\ sorted_indices' = sorted_indices
          /\ \E st \in {Start(St, Inp)} : Becomes(st)
     ELSE \E p \in SortedIndicesOf(encoder_out_lens) :
            /\ sorted_indices' = p
            /\ \E st \in {Start(St, [Inp EXCEPT !.sorted_indices = p])} :
                 Becomes(st)
  /\ UNCHANGED <<inputs, second, lists>>

(* One iteration of "for (t, batch_size) in enumerate(batch_size_list)" *)
DoStep ==
  /\ pc = "loop"
  /\ ~LoopEnded(St, Inp)
  /\ \E st \in {Step(St, Inp)} : Becomes(st)
  /\ UNCHANGED <<inputs, sorted_indices, second, lists>>

(* The code after the loop, up to the return *)
DoFinish ==
  /\ pc = "loop"
  /\ LoopEnded(St, Inp)
  /\ \E st \in {Finish(St, Inp)} : Becomes(st)
  /\ UNCHANGED <<inputs, sorted_indices, second, lists>>

Next == DoStart \/ DoStep \/ DoFinish

Spec == Init /\ [][Next]_vars

(* ----------------------------------------- a second call, batch shuffled *)
(* The caller shuffles the batch with p (position j holds utterance p[j]), *)
(* decodes it, and puts result j back at position p[j].                    *)
Shuffled(inp, p, s) ==
  [inp EXCEPT
     !.encoder_out = Tabulate(LAMBDA j : inp.encoder_out[p[j]], Len(p)),
     !.encoder_out_lens = Tabulate(LAMBDA j : inp.encoder_out_lens[p[j]], Len(p)),
     !.sorted_indices = s]

Unshuffled(res, p) ==
  LET inv == [i \in DOMAIN p |-> CHOOSE j \in DOMAIN p : p[j] = i]
  IN  [hyps |-> Tabulate(LAMBDA i : res.hyps[inv[i]], Len(p)),
       timestamps |-> Tabulate(LAMBDA i : res.timestamps[inv[i]], Len(p)),
       scores |-> Tabulate(LAMBDA i : res.scores[inv[i]], Len(p))]

DecodeShuffled ==
  /\ pc = "done"
  /\ \E p \in Perms(Len(encoder_out_lens)) :
       \E s \in SortedIndicesOf(Tabulate(LAMBDA j : encoder_out_lens[p[j]], Len(p))) :
         LET inp2 == Shuffled(Inp, p, s)
             r == Run(Start(EntryState, inp2), inp2)
         IN  /\ r.pc = "done"
             /\ perm' = p
             /\ ans_perm' = Unshuffled(r.ans, p)
  /\ pc' = "compared"
  /\ UNCHANGED <<inputs, sorted_indices, t, B, finalized_B, add_calls, hyps,
                 timestamps, scores, decoder_out, decoder_calls, joiner_calls,
                 proj_calls, joiner_in, ans, beam_wide, B_wide, lists>>

InitValid == Init /\ ~InputRejected(Inp)

NextPerm == Next \/ DecodeShuffled

SpecPerm == InitValid /\ [][NextPerm]_vars

(* ------------------------------------- a second call with a wider beam -- *)
(* The same batch, sorted the same way, is decoded again by                *)
(* modified_beam_search with a beam at least as wide; B_wide is B after    *)
(* "B = B + finalized_B" of that call.                                     *)
MaxWide == MaxBeam + 1

(* The batches decoded twice: one or two utterances scored by the second   *)
(* model; the features differ between utterances, frames and batches.     *)
InitWide ==
  /\ algo = "beam"
  /\ \E n \in 1..2 : encoder_out_lens \in [1..n -> 1..MaxT]
  /\ \E seed \in 0..(Len(MixedRows) - 1) :
       encoder_out =
         [i \in DOMAIN encoder_out_lens |->
            [k \in 1..encoder_out_lens[i] |->
               MixedFrom + ((seed + i + (k * (k + 1)) \div 2) % Len(MixedRows))]]
  /\ beam \in 1..MaxBeam
  /\ unk_id \in UnkIds
  /\ temperature = 1
  /\ topk_ties \in {"low", "high"}
  /\ sorted_indices = <<>>
  /\ Is(EntryState)
  /\ perm = <<>>
  /\ ans_perm = NoResult
  /\ beam_wide = 0
  /\ B_wide = <<>>
  /\ ListsIdle

DecodeWider ==
  /\ pc = "done"
  /\ algo = "beam"
  /\ \E b2 \in beam..MaxWide :
       \E r \in {Run(Start(EntryState, [Inp EXCEPT !.beam = b2]), [Inp EXCEPT !.beam = b2])} :
         /\ r.pc = "done"
         /\ beam_wide' = b2
         /\ B_wide' = r.B
  /\ pc' = "widened"
  /\ UNCHANGED <<inputs, sorted_indices, t, B, finalized_B, add_calls, hyps,
                 timestamps, scores, decoder_out, decoder_calls, joiner_calls,
                 proj_calls, joiner_in, ans, perm, ans_perm, lists>>

NextWide == Next \/ DecodeWider

SpecWide == InitWide /\ [][NextWide]_vars

(* ------------------------------------------- calls with any beam width -- *)
(* beam is an argument the code does not check: the calls below pass the   *)
(* input checks and take every beam from 1 to one more than the vocabulary *)
(* size.                                                                   *)
MaxAnyBeam == vocab_size + 1

InitAnyBeam ==
  /\ algo \in {"greedy", "beam"}
  /\ \E n \in 1..2 : encoder_out_lens \in [1..n -> 1..MaxT]
  /\ encoder_out = Frames(0, encoder_out_lens)
  /\ IF algo = "beam"
     THEN /\ beam \in 1..MaxAnyBeam
          /\ \E s \in Settings :
               /\ unk_id = s[1]
               /\ temperature = s[2]
               /\ topk_ties = s[3]
     ELSE /\ unk_id \in UnkIds
          /\ beam = 1
          /\ temperature = 1
          /\ topk_ties = "low"
  /\ sorted_indices = <<>>
  /\ Is(EntryState)
  /\ perm = <<>>
  /\ ans_perm = NoResult
  /\ beam_wide = 0
  /\ B_wide = <<>>
  /\ ListsIdle

SpecAnyBeam == InitAnyBeam /\ [][Next]_vars

(* ------------------------------------- HypothesisList used on its own -- *)
(* A list of up to MaxList hypotheses with distinct keys is made, filter() *)
(* or topk() is called on it, and up to MaxAdds hypotheses are added to    *)
(* the list returned.                                                      *)
MaxList == MaxBeam + 1
MaxAdds == 2

ListYs(v) == Append(Tabulate(LAMBDA k : blank_id, context_size), v)

ListLogProbs == {[n |-> 1, e |-> 1], [n |-> 4, e |-> 1], [n |-> 16, e |-> 1]}

InitLists ==
  /\ algo = "beam"
  /\ encoder_out_lens = <<>>
  /\ encoder_out = <<>>
  /\ beam = 1
  /\ unk_id = blank_id
  /\ temperature = 1
  /\ topk_ties = "low"
  /\ sorted_indices = <<>>
  /\ Is(EntryState)
  /\ perm = <<>>
  /\ ans_perm = NoResult
  /\ beam_wide = 0
  /\ B_wide = <<>>
  /\ \E n \in 1..MaxList : \E lp \in [1..n -> ListLogProbs] :
       /\ heap = [i \in 1..n |-> Hypothesis(ListYs(i - 1), <<>>, lp[i], <<>>)]
       /\ self_data = [i \in 1..n |-> [key |-> key(ListYs(i - 1)), ref |-> i]]
  /\ ans_data = <<>>
  /\ lists_pc = "made"
  /\ adds = 0

Returns(r) ==
  /\ heap' = r.heap
  /\ ans_data' = r.data
  /\ lists_pc' = "returned"
  /\ UNCHANGED <<self_data, adds, inputs, sorted_indices, state, second>>

(* ans = self.filter(threshold) *)
CallFilter ==
  /\ lists_pc = "made"
  /\ \E threshold \in ListLogProbs :
       \E r \in {HypothesisList_filter(heap, self_data, threshold, temperature)} :
         Returns(r)

(* ans = self.topk(k) *)
CallTopk ==
  /\ lists_pc = "made"
  /\ \E k \in 1..MaxList :
       \E r \in {HypothesisList_topk(heap, self_data, k, temperature)} :
         Returns(r)

(* ans.add(Hypothesis(ys=..., log_prob=...)) with a new Hypothesis object *)
AddToReturned ==
  /\ lists_pc = "returned"
  /\ adds < MaxAdds
  /\ \E v \in 0..(MaxList - 1) : \E lp \in ListLogProbs :
       LET hyp == Hypothesis(ListYs(v), <<>>, lp, <<>>)
       IN  \E r \in {HypothesisList_add(Append(heap, hyp), ans_data, Len(heap) + 1, temperature)} :
             /\ heap' = r.heap
             /\ ans_data' = r.data
  /\ adds' = adds + 1
  /\ UNCHANGED <<self_data, lists_pc, inputs, sorted_indices, state, second>>

NextLists == CallFilter \/ CallTopk \/ AddToReturned

SpecLists == InitLists /\ [][NextLists]_vars

(* ================================================================ claims *)
N == Len(encoder_out_lens)

InvalidBatch ==
  \/ Len(encoder_out_lens) = 0
  \/ \E i \in DOMAIN encoder_out_lens : encoder_out_lens[i] <= 0

(* Every hypothesis list the beam search holds, active or retired *)
AllLists == Range(B) \cup Range(finalized_B)

(* Every hypothesis the beam search holds *)
AllHyps == UNION {{data[j].hyp : j \in DOMAIN data} : data \in AllLists}

(* Every add() call of the step that has just run *)
AddCalls == UNION {Range(add_calls[i]) : i \in DOMAIN add_calls}

(* The add() calls that found the key present, with the entry they found *)
IsMerge(c) == HasKey(c.before, key(c.hyp.ys))
Existing(c) == c.before[IndexOfKey(c.before, key(c.hyp.ys))].hyp

Last(s) == s[Len(s)]
Front(s) == SubSeq(s, 1, Len(s) - 1)

IsIdentity(p) == \A i \in DOMAIN p : p[i] = i

(* C1: decoding a shuffled batch and un-shuffling the result gives every   *)
(* utterance the same tokens, timestamps and scores as decoding the batch  *)
(* as given, for both decoders and whatever order the length sort chose.   *)
C1_PermutationInvariance == pc = "compared" => ans_perm = ans

C1_Witness ==
  /\ pc = "compared"
  /\ N = 3
  /\ Cardinality(Range(encoder_out_lens)) = 3
  /\ ~IsIdentity(perm)
  /\ ~IsIdentity(sorted_indices)
  /\ ans.hyps[1] # ans.hyps[2]
  /\ ans.hyps[2] # ans.hyps[3]
  /\ ans.hyps[1] # <<>>

(* C2: in modified_beam_search the score appended with an emitted token is *)
(* the log-probability of that token alone under the parent's distribution *)
(* at step t, without the parent's cumulative log-probability.             *)
C2_TokenLevelScore ==
  (algo = "beam" /\ pc = "loop") =>
    \A i \in DOMAIN add_calls : \A c \in DOMAIN add_calls[i] :
      LET h == add_calls[i][c].hyp
      IN  (h.timestamp # <<>> /\ Last(h.timestamp) = t - 1) =>
            LpEq(Last(h.scores),
                 log_softmax(
                   joiner(encoder_out[sorted_indices[i]][t],
                          decoder(LastK(Front(h.ys), context_size))),
                   temperature)[Last(h.ys) + 1],
                 temperature)

(* C3: add() of a hypothesis whose key is present keeps the number of      *)
(* entries and the entry's sequences and makes its log-probability the     *)
(* log of the sum of the two probabilities, above both; add() of a new key *)
(* inserts the hypothesis as it is.                                        *)
C3_AddMerges ==
  \A c \in AddCalls :
    IF IsMerge(c)
    THEN LET j == IndexOfKey(c.before, key(c.hyp.ys))
             old == c.before[j].hyp
             new == c.after[j].hyp
         IN  /\ Len(c.after) = Len(c.before)
             /\ \A k \in DOMAIN c.before :
                  k # j => c.after[k] = c.before[k]
             /\ c.after[j].key = c.before[j].key
             /\ new.ys = old.ys
             /\ new.scores = old.scores
             /\ new.timestamp = old.timestamp
             /\ new.log_prob.e = old.log_prob.e
             /\ new.log_prob.e = c.hyp.log_prob.e
             /\ new.log_prob.n = old.log_prob.n + c.hyp.log_prob.n
             /\ LpLess(old.log_prob, new.log_prob, temperature)
             /\ LpLess(c.hyp.log_prob, new.log_prob, temperature)
    ELSE /\ Len(c.after) = Len(c.before) + 1
         /\ SubSeq(c.after, 1, Len(c.before)) = c.before
         /\ Last(c.after).hyp = c.hyp

C3_Witness ==
  \E c \in AddCalls :
    /\ IsMerge(c)
    /\ Existing(c).log_prob.n # c.hyp.log_prob.n
    /\ Existing(c).timestamp # c.hyp.timestamp
    /\ \E d \in AddCalls : ~IsMerge(d) /\ d.before # <<>>

(* C4: after every time step every utterance's list, active or retired,    *)
(* has between 1 and beam hypotheses, no two with the same tokens, each    *)
(* stored under the key of its own tokens.                                 *)
C4_ListWellFormed ==
  (algo = "beam" /\ pc \in {"loop", "done"}) =>
    /\ Len(B) + Len(finalized_B) >= N
    /\ \A data \in AllLists :
         /\ Len(data) >= 1
         /\ Len(data) <= beam
         /\ \A j \in DOMAIN data : data[j].key = key(data[j].hyp.ys)
         /\ \A j, k \in DOMAIN data :
              j # k => data[j].hyp.ys # data[k].hyp.ys

C4_Witness ==
  /\ algo = "beam"
  /\ pc = "loop"
  /\ t >= 2
  /\ beam = 2
  /\ \E data \in Range(B) : Len(data) = 2
  /\ \E data \in Range(B) : Len(data) = 1
  /\ \E data \in Range(finalized_B) : Len(data) = 2
  /\ \E c \in AddCalls : IsMerge(c)

(* The valid length of the utterance in sorted row j *)
SortedLens == [j \in 1..N |-> encoder_out_lens[sorted_indices[j]]]

(* The lists of all utterances in sorted order: B + finalized_B, which the *)
(* code after the loop stores in B.                                        *)
Combined == IF pc = "done" THEN B ELSE B \o finalized_B

(* A step leaves the list of every utterance whose length is exhausted *)
C5_Step ==
  \A j \in 1..N :
    (algo = "beam" /\ pc = "loop" /\ SortedLens[j] <= t) =>
      /\ Len(Combined') = N
      /\ Combined'[j] = Combined[j]

(* C5: once an utterance's valid length is exhausted its hypothesis list   *)
(* is changed by no later step, and the list the final extraction reads is *)
(* that same list.                                                         *)
C5_RetiredListsFrozen == [][C5_Step]_vars

C5_Witness ==
  /\ algo = "beam"
  /\ pc = "done"
  /\ N = 3
  /\ Len(finalized_B) = 2
  /\ Len(finalized_B[1]) = 2
  /\ SortedLens[2] # SortedLens[3]
  /\ SortedLens[1] = SortedLens[3] + 2

(* C6: the tokens after the context prefix, the timestamps and the scores  *)
(* have the same length, in the result of both decoders and in every       *)
(* hypothesis at every step.                                               *)
C6_EqualLengths ==
  /\ \A i \in DOMAIN ans.hyps :
       /\ Len(ans.timestamps[i]) = Len(ans.hyps[i])
       /\ Len(ans.scores[i]) = Len(ans.hyps[i])
  /\ \A i \in DOMAIN hyps :
       /\ Len(timestamps[i]) = Len(hyps[i]) - context_size
       /\ Len(scores[i]) = Len(hyps[i]) - context_size
  /\ \A h \in AllHyps :
       /\ Len(h.timestamp) = Len(h.ys) - context_size
       /\ Len(h.scores) = Len(h.ys) - context_size

C6_Witness ==
  /\ pc = "done"
  /\ \E i, j \in 1..N : Len(ans.hyps[i]) = 2 /\ Len(ans.hyps[j]) = 1
  /\ \E h \in AllHyps : Len(h.ys) = context_size
  /\ \E h \in AllHyps : Len(h.ys) = context_size + 1

Sentinels == {blank_id, unk_id}

(* The arg-max of utterance i at frame k while nothing has been emitted *)
SilentArgmax(i, k) ==
  argmax(log_softmax(
           joiner(encoder_out[i][k],
                  decoder([c \in 1..context_size |->
                             IF c < context_size THEN -1 ELSE blank_id])),
           1)) - 1

(* C7: neither the blank id nor the unknown id is in any token sequence    *)
(* either decoder returns or holds after the context prefix, and an        *)
(* utterance whose arg-max is blank or unknown at every frame gets the     *)
(* empty sequence from greedy_search_batch.                                *)
C7_NoSentinelInOutput ==
  /\ \A i \in DOMAIN ans.hyps : \A k \in DOMAIN ans.hyps[i] :
       ans.hyps[i][k] \notin Sentinels
  /\ \A i \in DOMAIN hyps : \A k \in DOMAIN hyps[i] :
       k > context_size => hyps[i][k] \notin Sentinels
  /\ \A h \in AllHyps : \A k \in DOMAIN h.ys :
       k > context_size => h.ys[k] \notin Sentinels
  /\ (algo = "greedy" /\ pc = "done") =>
       \A i \in 1..N :
         (\A k \in 1..encoder_out_lens[i] : SilentArgmax(i, k) \in Sentinels)
           => ans.hyps[i] = <<>>

C7_Witness ==
  /\ pc = "done"
  /\ algo = "greedy"
  /\ unk_id # blank_id
  /\ \E i \in 1..N :
       /\ encoder_out_lens[i] >= 2
       /\ ans.hyps[i] = <<>>
       /\ \E k \in 1..encoder_out_lens[i] : SilentArgmax(i, k) = unk_id
       /\ \E k \in 1..encoder_out_lens[i] : SilentArgmax(i, k) = blank_id

(* a / la < b / lb on emitted lengths.  The quotient has no value for a    *)
(* hypothesis that has emitted nothing; such a hypothesis is taken to be   *)
(* neither below nor above another one.                                    *)
EmittedNormLess(a, la, b, lb, temp) ==
  IF la = 0 \/ lb = 0 THEN FALSE ELSE NormLess(a, la, b, lb, temp)

(* The entry of the final list of input utterance i that was returned *)
Returned(i) ==
  LET data == B[unsorted_indices(sorted_indices)[i]]
  IN  CHOOSE h \in {data[j].hyp : j \in DOMAIN data} :
        Drop(h.ys, context_size) = ans.hyps[i]

FinalHyps(i) ==
  LET data == B[unsorted_indices(sorted_indices)[i]]
  IN  {data[j].hyp : j \in DOMAIN data}

(* C8: the hypothesis modified_beam_search returns for an utterance is one *)
(* of its final list that maximises the cumulative log-probability divided *)
(* by the number of emitted tokens (context prefix not counted).           *)
C8_BestByEmittedLength ==
  (algo = "beam" /\ pc = "done") =>
    \A i \in 1..N :
      LET r == Returned(i)
      IN  \A h \in FinalHyps(i) :
            ~EmittedNormLess(r.log_prob, Len(r.ys) - context_size,
                             h.log_prob, Len(h.ys) - context_size,
                             temperature)

(* C8 as amended: the returned hypothesis is in the utterance's final list *)
(* and maximises the cumulative log-probability divided by len(ys), the    *)
(* length that counts the context_size blanks of the prefix too.           *)
C8_BestByYsLength ==
  (algo = "beam" /\ pc = "done") =>
    \A i \in 1..N :
      /\ \E h \in FinalHyps(i) :
           /\ Drop(h.ys, context_size) = ans.hyps[i]
           /\ h.timestamp = ans.timestamps[i]
           /\ h.scores = ans.scores[i]
      /\ LET r == Returned(i)
         IN  \A h \in FinalHyps(i) :
               ~NormLess(r.log_prob, Len(r.ys), h.log_prob, Len(h.ys),
                         temperature)

C8_Witness ==
  /\ algo = "beam"
  /\ pc = "done"
  /\ \E i \in 1..N : \E h \in FinalHyps(i) :
       /\ LpLess(Returned(i).log_prob, h.log_prob, temperature)
       /\ Len(h.ys) < Len(Returned(i).ys)
  /\ \E i \in 1..N : \E h \in FinalHyps(i) :
       /\ LpLess(h.log_prob, Returned(i).log_prob, temperature)
       /\ Len(h.ys) > Len(Returned(i).ys)

(* C9: on every merge inside modified_beam_search the incoming             *)
(* hypothesis has the timestamps and the scores of the entry it merges     *)
(* into.                                                                   *)
C9_MergeSameSequences ==
  \A c \in AddCalls :
    IsMerge(c) =>
      /\ c.hyp.timestamp = Existing(c).timestamp
      /\ c.hyp.scores = Existing(c).scores

(* C9 as amended: on every merge the incoming hypothesis has the tokens of *)
(* the entry it merges into, and timestamp and score sequences as long as  *)
(* the entry's; their contents can differ.                                 *)
C9_MergeSameTokens ==
  \A c \in AddCalls :
    IsMerge(c) =>
      /\ c.hyp.ys = Existing(c).ys
      /\ Len(c.hyp.timestamp) = Len(Existing(c).timestamp)
      /\ Len(c.hyp.scores) = Len(Existing(c).scores)

C9_Witness ==
  \E c \in AddCalls :
    /\ IsMerge(c)
    /\ Len(c.hyp.ys) = context_size + 2
    /\ c.hyp.timestamp # Existing(c).timestamp
    /\ c.hyp.scores # Existing(c).scores

(* C10: a batch that is empty or has a valid length <= 0 is rejected with  *)
(* an error before any call of model.decoder, model.joiner or a projection,*)
(* and nothing is returned.                                                *)
C10_RejectedBeforeScoring ==
  (InvalidBatch /\ pc # "start") =>
    /\ pc = "error"
    /\ decoder_calls = 0
    /\ joiner_calls = 0
    /\ proj_calls = 0
    /\ ans = NoResult

C10_Witness ==
  /\ pc = "error"
  /\ N = 3
  /\ encoder_out_lens[1] > 0
  /\ encoder_out_lens[2] = 0
  /\ encoder_out_lens[3] > 0

(* The number of rows the step that has just run worked on *)
ActiveRows == IF algo = "beam" THEN Len(B) ELSE Len(decoder_out)

(* The number of utterances whose valid length exceeds k *)
LongerThan(k) ==
  Cardinality({i \in DOMAIN encoder_out_lens : encoder_out_lens[i] > k})

(* C11: the loop runs exactly max(L) steps t = 0..max(L)-1; the batch size *)
(* of step t is the number of utterances with L_i > t, is N at t = 0 and   *)
(* never grows; the rows a step works on are the first active(t) rows of   *)
(* the longest-first order.                                                *)
C11_Schedule ==
  (~InvalidBatch /\ pc \in {"loop", "done"}) =>
    LET sched == batch_size_list(encoder_out_lens)
    IN  /\ Len(sched) = MaxOf(encoder_out_lens)
        /\ sched[1] = N
        /\ \A k \in DOMAIN sched : sched[k] = LongerThan(k - 1)
        /\ \A k \in DOMAIN sched : k > 1 => sched[k] <= sched[k - 1]
        /\ t <= MaxOf(encoder_out_lens)
        /\ pc = "done" => t = MaxOf(encoder_out_lens)
        /\ (pc = "loop" /\ t >= 1) =>
             /\ ActiveRows = LongerThan(t - 1)
             /\ \A j \in 1..N :
                  j <= ActiveRows <=>
                    encoder_out_lens[sorted_indices[j]] > t - 1

C11_Witness ==
  /\ pc = "loop"
  /\ N = 3
  /\ t = 2
  /\ ActiveRows = 2
  /\ MaxOf(encoder_out_lens) = 3
  /\ LongerThan(2) = 1
  /\ ~IsIdentity(sorted_indices)

(* A step of the time loop has been taken *)
IsStep == pc = "loop" /\ pc' = "loop" /\ t' = t + 1

(* The hypotheses of sorted row j before the step: the entries of B[j], or *)
(* the one greedy hypothesis hyps[j]                                        *)
RowHyps(j) ==
  IF algo = "beam" THEN [h \in DOMAIN B[j] |-> B[j][h].hyp.ys]
  ELSE <<hyps[j]>>

(* The number of hypotheses of the sorted rows before row j *)
RECURSIVE RowsBefore(_)
RowsBefore(j) == IF j = 1 THEN 0 ELSE RowsBefore(j - 1) + Len(RowHyps(j - 1))

(* Frame t of the utterance in sorted row j *)
FrameOf(j, k) == encoder_out[sorted_indices[j]][k + 1]

(* The log-probabilities of the tokens after hypothesis ys at a frame *)
TokenLogProbs(frame, ys) ==
  log_softmax(joiner(frame, decoder(LastK(ys, context_size))), temperature)

C12_Step ==
  IF IsStep
  THEN LET active == LongerThan(t)
       IN  /\ joiner_calls' = joiner_calls + 1
           /\ Len(joiner_in') = RowsBefore(active + 1)
           /\ \A j \in 1..active : \A h \in DOMAIN RowHyps(j) :
                LET row == joiner_in'[RowsBefore(j) + h]
                IN  /\ row.enc = FrameOf(j, t)
                    /\ row.dec = decoder(LastK(RowHyps(j)[h], context_size))
           /\ algo = "beam" =>
                \A j \in 1..active : \A c \in Range(add_calls'[j]) :
                  \E h \in DOMAIN B[j] : \E v \in 0..(vocab_size - 1) :
                    /\ c.hyp.ys = IF v \in Sentinels THEN B[j][h].hyp.ys
                                  ELSE Append(B[j][h].hyp.ys, v)
                    /\ LpEq(c.hyp.log_prob,
                            LpAdd(B[j][h].hyp.log_prob,
                                  TokenLogProbs(FrameOf(j, t),
                                                B[j][h].hyp.ys)[v + 1]),
                            temperature)
           /\ algo = "greedy" =>
                \A j \in 1..active :
                  LET y == argmax(TokenLogProbs(FrameOf(j, t), hyps[j])) - 1
                  IN  hyps'[j] = IF y \in Sentinels THEN hyps[j]
                                 ELSE Append(hyps[j], y)
  ELSE joiner_calls' = joiner_calls

(* C12: every time step of either decoder calls model.joiner exactly once, *)
(* on one row per active hypothesis in utterance-major order, each row     *)
(* holding the frame of its own utterance at step t and the decoder output *)
(* of its own hypothesis; the scores a step uses for a hypothesis are      *)
(* those of its own row.  No other part of a call invokes the joiner.      *)
C12_OneJoinerCallPerStep == [][C12_Step]_vars

C12_Witness ==
  /\ algo = "beam"
  /\ pc = "loop"
  /\ t = 3
  /\ joiner_calls = 3
  /\ Len(joiner_in) = 3
  /\ joiner_in[1].enc # joiner_in[3].enc
  /\ joiner_in[1].dec # joiner_in[2].dec

(* The arg-max of sorted row j in the greedy step about to run, from the   *)
(* decoder output the step is given                                        *)
GreedyArgmax(j) ==
  argmax(log_softmax(joiner(FrameOf(j, t), decoder_out[j]), 1)) - 1

C13_Step ==
  (algo = "greedy" /\ pc = "loop") =>
    IF IsStep
    THEN LET active == LongerThan(t)
             emitted == \E j \in 1..active : GreedyArgmax(j) \notin Sentinels
         IN  /\ emitted => decoder_calls' = decoder_calls + 1
             /\ ~emitted =>
                  /\ decoder_calls' = decoder_calls
                  /\ hyps' = hyps
                  /\ decoder_out' = Take(decoder_out, active)
    ELSE decoder_calls' = decoder_calls

(* C13: after the initial context computation greedy_search_batch runs     *)
(* model.decoder again after a step exactly when that step emitted a       *)
(* token; a step in which every active arg-max is blank or unknown is      *)
(* followed by no decoder call and leaves the cached decoder output as it  *)
(* was.                                                                    *)
C13_DecoderOnlyAfterEmission == [][C13_Step]_vars

C13_Witness ==
  /\ algo = "greedy"
  /\ pc = "done"
  /\ N >= 2
  /\ t = 3
  /\ decoder_calls = 2
  /\ unk_id # blank_id
  /\ \E i \in 1..N : Len(ans.hyps[i]) = 1

(* The log-probabilities sorted row j is given in the greedy step about to *)
(* run                                                                     *)
GreedyLogProbs(j) == log_softmax(joiner(FrameOf(j, t), decoder_out[j]), 1)

(* One utterance of 3 frames whose arg-max is token 2 at frame 0, blank at *)
(* frame 1 and token 3 at frame 2                                          *)
C14_Scenario ==
  /\ algo = "greedy"
  /\ encoder_out_lens = <<3>>
  /\ argmax(TokenLogProbs(encoder_out[1][1], <<-1, blank_id>>)) - 1 = 2
  /\ argmax(TokenLogProbs(encoder_out[1][2], <<-1, blank_id, 2>>)) - 1
       = blank_id
  /\ argmax(TokenLogProbs(encoder_out[1][3], <<-1, blank_id, 2>>)) - 1 = 3

C14_Step ==
  /\ (algo = "greedy" /\ IsStep) =>
       \A j \in 1..N :
         LET y == GreedyArgmax(j)
         IN  IF j <= LongerThan(t) /\ y \notin Sentinels
             THEN /\ hyps'[j] = Append(hyps[j], y)
                  /\ timestamps'[j] = Append(timestamps[j], t)
                  /\ scores'[j] = Append(scores[j], GreedyLogProbs(j)[y + 1])
             ELSE /\ hyps'[j] = hyps[j]
                  /\ timestamps'[j] = timestamps[j]
                  /\ scores'[j] = scores[j]
  /\ (C14_Scenario /\ pc' = "done") =>
       /\ ans'.hyps = << <<2, 3>> >>
       /\ ans'.timestamps = << <<0, 2>> >>

(* C14: a greedy step leaves the tokens, timestamps and scores of a row    *)
(* whose arg-max is blank or unknown (or which is no longer active) as     *)
(* they were, and appends exactly the arg-max token, t and that token's    *)
(* log-probability otherwise; one 3-frame utterance with arg-max 2, blank, *)
(* 3 gives tokens [2, 3] and timestamps [0, 2].                            *)
C14_GreedyStep == [][C14_Step]_vars

C14_Witness ==
  /\ C14_Scenario
  /\ pc = "done"
  /\ ans.hyps = << <<2, 3>> >>
  /\ ans.timestamps = << <<0, 2>> >>
  /\ Len(ans.scores[1]) = 2

(* C15: with beam = 1 every step gives the fresh list of every active      *)
(* utterance exactly one add(), which never finds its key present, and     *)
(* every list, active or retired, holds exactly one hypothesis.            *)
C15_BeamOneNeverMerges ==
  (algo = "beam" /\ beam = 1) =>
    /\ \A i \in DOMAIN add_calls :
         /\ Len(add_calls[i]) = 1
         /\ ~IsMerge(add_calls[i][1])
         /\ add_calls[i][1].before = <<>>
    /\ \A data \in AllLists : Len(data) = 1

C15_Witness ==
  /\ algo = "beam"
  /\ beam = 1
  /\ pc = "loop"
  /\ t = 3
  /\ Len(add_calls) = 2
  /\ Len(finalized_B) = 1
  /\ \E h \in AllHyps : Len(h.ys) = context_size + 2
  /\ \E h \in AllHyps : Len(h.ys) = context_size

(* The largest log_prob of a hypothesis list *)
BestLogProb(data) == get_most_probable(data, FALSE, temperature).log_prob

C17_RunsToCompletion ==
  ~InvalidBatch =>
    /\ pc # "error"
    /\ pc = "done" =>
         /\ t = MaxOf(encoder_out_lens)
         /\ Len(ans.hyps) = N
         /\ Len(ans.timestamps) = N
         /\ Len(ans.scores) = N

(* The (parent, token) pairs of sorted row j before a step, and the        *)
(* candidate value of a pair: parent log_prob + token log-prob             *)
Pairs(j) == (DOMAIN B[j]) \X (0..(vocab_size - 1))

PairVal(j, p) ==
  LpAdd(B[j][p[1]].hyp.log_prob,
        TokenLogProbs(FrameOf(j, t), B[j][p[1]].hyp.ys)[p[2] + 1])

(* hyp is what pair p of row j expands to at frame t *)
ExpandsTo(hyp, j, p) ==
  LET parent == B[j][p[1]].hyp
  IN  /\ LpEq(hyp.log_prob, PairVal(j, p), temperature)
      /\ IF p[2] \in Sentinels
         THEN /\ hyp.ys = parent.ys
              /\ hyp.timestamp = parent.timestamp
              /\ hyp.scores = parent.scores
         ELSE /\ hyp.ys = Append(parent.ys, p[2])
              /\ hyp.timestamp = Append(parent.timestamp, t)
              /\ Len(hyp.scores) = Len(parent.scores) + 1
              /\ Front(hyp.scores) = parent.scores

(* The new hypotheses calls[k..] come from distinct pairs outside used,    *)
(* and no pair left out has a larger value than a pair taken               *)
RECURSIVE SelectedFrom(_, _, _, _)
SelectedFrom(calls, j, k, used) ==
  IF k > Len(calls)
  THEN \A p \in used : \A q \in Pairs(j) \ used :
         ~LpLess(PairVal(j, p), PairVal(j, q), temperature)
  ELSE \E p \in Pairs(j) \ used :
         /\ ExpandsTo(calls[k].hyp, j, p)
         /\ SelectedFrom(calls, j, k + 1, used \cup {p})

C18_Step ==
  (algo = "beam" /\ IsStep) =>
    /\ Len(add_calls') = LongerThan(t)
    /\ \A j \in DOMAIN add_calls' :
         /\ Len(add_calls'[j]) = beam
         /\ SelectedFrom(add_calls'[j], j, 1, {})

(* C18: in every step of modified_beam_search and every active utterance,  *)
(* the hypotheses given to add() come from the beam (parent, token) pairs  *)
(* of that utterance with the largest parent log_prob + token log-prob; a  *)
(* blank or unknown token leaves the parent's tokens, timestamps and       *)
(* scores as they were before the step, any other token extends each of    *)
(* them by one element (the token, t, a score); log_prob is the candidate  *)
(* value.  Two expansions of one parent both start from the parent as it   *)
(* was before the step.                                                    *)
C18_BeamExpansion == [][C18_Step]_vars

(* Whether an add() call of the last step got an emitting expansion, and   *)
(* the tokens of the parent it expanded                                    *)
EmittedNow(c) ==
  c.hyp.timestamp # <<>> /\ Last(c.hyp.timestamp) = t - 1

ParentYs(c) == IF EmittedNow(c) THEN Front(c.hyp.ys) ELSE c.hyp.ys

C18_Witness ==
  /\ algo = "beam"
  /\ beam = 2
  /\ pc = "loop"
  /\ t >= 2
  /\ \E j \in DOMAIN add_calls :
       /\ Len(add_calls[j]) = 2
       /\ ParentYs(add_calls[j][1]) # ParentYs(add_calls[j][2])
       /\ \E k \in 1..2 : EmittedNow(add_calls[j][k])
       /\ \E k \in 1..2 : ~EmittedNow(add_calls[j][k])

(* The call on the utterance of sorted row j alone *)
Alone(j) ==
  [Inp EXCEPT !.encoder_out = <<encoder_out[sorted_indices[j]]>>,
              !.encoder_out_lens = <<encoder_out_lens[sorted_indices[j]]>>,
              !.sorted_indices = <<1>>]

(* The list a call on the utterance of sorted row j alone has after the    *)
(* step at frame t, when it holds that utterance's list before the step    *)
SteppedAlone(j) ==
  Step([EntryState EXCEPT !.pc = "loop", !.t = t, !.B = <<Combined[j]>>],
       Alone(j)).B[1]

C19_Step ==
  algo = "beam" =>
    /\ (pc = "start" /\ pc' = "loop") => Combined' = InitialB(N)
    /\ IsStep =>
         /\ Len(Combined') = N
         /\ Len(B') = LongerThan(t)
         /\ \A j \in 1..N :
              Combined'[j] = IF SortedLens[j] > t THEN SteppedAlone(j)
                             ELSE Combined[j]
    /\ (pc = "loop" /\ pc' = "done") => Combined' = Combined

(* C19: in modified_beam_search, at every step and after the loop,         *)
(* B + finalized_B has one list per utterance and its j-th list is the     *)
(* list of the utterance in sorted row j: a step takes the list at         *)
(* position j to what a step on that utterance alone takes it to while the *)
(* utterance has frames left, and leaves it in place afterwards.           *)
C19_CombinedInSortedOrder == [][C19_Step]_vars

C19_Witness ==
  /\ algo = "beam"
  /\ pc = "done"
  /\ N = 3
  /\ beam = 2
  /\ ~IsIdentity(sorted_indices)
  /\ Len(finalized_B) = 2
  /\ SortedLens = <<3, 2, 2>>
  /\ finalized_B[1] # finalized_B[2]
  /\ B[1] # B[2]

(* ts is strictly increasing and every element is a frame index of an      *)
(* utterance of len valid frames                                           *)
FrameIndexes(ts, len) ==
  /\ \A k \in DOMAIN ts : 0 <= ts[k] /\ ts[k] < len
  /\ \A k \in 1..(Len(ts) - 1) : ts[k] < ts[k + 1]

(* C20: the timestamps of every utterance in the result of both decoders,  *)
(* and of every hypothesis of modified_beam_search at every step, are      *)
(* strictly increasing frame indexes below the utterance's valid length,   *)
(* and there are at most as many tokens as valid frames.                   *)
C20_OneSymbolPerFrame ==
  /\ \A i \in DOMAIN ans.timestamps :
       /\ FrameIndexes(ans.timestamps[i], encoder_out_lens[i])
       /\ Len(ans.hyps[i]) <= encoder_out_lens[i]
  /\ (algo = "beam" /\ pc \in {"loop", "done"}) =>
       \A j \in DOMAIN Combined : \A h \in DOMAIN Combined[j] :
         LET hyp == Combined[j][h].hyp
         IN  /\ FrameIndexes(hyp.timestamp, SortedLens[j])
             /\ \A k \in DOMAIN hyp.timestamp : hyp.timestamp[k] < t
             /\ Len(hyp.ys) - context_size <= SortedLens[j]

C20_Witness ==
  /\ algo = "beam"
  /\ pc = "done"
  /\ N >= 2
  /\ \E i \in 1..N :
       /\ encoder_out_lens[i] >= 2
       /\ Len(ans.timestamps[i]) = encoder_out_lens[i]
  /\ \E i \in 1..N :
       /\ ans.timestamps[i] # <<>>
       /\ Len(ans.timestamps[i]) < encoder_out_lens[i]
       /\ ans.timestamps[i][1] > 0

(* C21: whenever greedy_search_batch is about to call the joiner at step   *)
(* t, the cached decoder_out row of every utterance still active is the    *)
(* decoder's output for the last context_size tokens of its hyps as they   *)
(* stand, whether or not the decoder ran in the step before and however    *)
(* many rows have been cut off.                                            *)
C21_GreedyCacheConsistent ==
  (algo = "greedy" /\ pc = "loop") =>
    /\ Len(decoder_out) >= LongerThan(t)
    /\ \A i \in 1..LongerThan(t) :
         decoder_out[i] = decoder(LastK(hyps[i], context_size))

C21_Witness ==
  /\ algo = "greedy"
  /\ pc = "loop"
  /\ t = 2
  /\ N = 3
  /\ LongerThan(t) = 1
  /\ Len(decoder_out) = 2
  /\ decoder_calls = 2
  /\ Len(hyps[1]) = context_size + 1
  /\ Len(timestamps[1]) = 1
  /\ timestamps[1][1] = 0
  /\ hyps[2] # hyps[1]

(* What a list shows: its keys in order, each with the log_prob of the     *)
(* hypothesis it holds                                                     *)
Shown(h, data) ==
  [j \in DOMAIN data |-> [key |-> data[j].key, log_prob |-> h[data[j].ref].log_prob]]

(* C22: filter() and topk() leave the list they are called on as it was,   *)
(* and no add() on the list they returned changes the keys of the original *)
(* list or the log_prob of a hypothesis it holds.                          *)
C22_ReturnedListIndependent ==
  [][lists_pc # "idle" => Shown(heap', self_data') = Shown(heap, self_data)]_vars

====
